---- MODULE Spec2Model ----
(***************************************************************************)
(* Model of the run_export pipeline of streamlit_app.py: per-state         *)
(* download, residential / location-provider / exclusion filters, speed    *)
(* collapse, grouping, optional per-state rollup, merge of all states and  *)
(* the final pivot.                                                        *)
(*                                                                         *)
(* A polars DataFrame is a record [cols, rows, pivot_on, keys, wide]:      *)
(*   cols      the set of its (long-form) column names,                    *)
(*   rows      the bag of its rows (row order is not modelled: group_by    *)
(*             does not keep it and no step reads it),                     *)
(*   pivot_on  "" for a long frame, else the column the frame was pivoted  *)
(*             on; keys are then the generated columns and wide maps each  *)
(*             index value to its non-null cells.                          *)
(* A row is a record over all of Columns; a column that the frame does not *)
(* have holds NullOf(column).                                              *)
(***************************************************************************)
EXTENDS Integers, Sequences, FiniteSets, Bags, TLC

\* At most this many file requests of one run answer with a non-200 status.
MaxFailures == 1

VARIABLES
    \* the snapshot published by the API (read, never written)
    file_columns,
    \* widget values, fixed when "Run export" is pressed
    states_of_interest, tech_of_interest_list, resi_choice,
    include_location_providers, location_provider_ids,
    include_provider_subset, provider_subset_tech,
    excluded_provider_ids, group_on_speed, group_on_technology,
    user_cb_geoids, rollup_choice, rollup_level,
    \* run_export
    pc, s_idx, combined_raw_df_for_state,
    combined_provider_subset_df_for_state, loc_ids, dfs_dict, df_merged,
    csv_bytes, err, failures, block_level

inputs == <<file_columns, states_of_interest, tech_of_interest_list,
            resi_choice, include_location_providers, location_provider_ids,
            include_provider_subset, provider_subset_tech,
            excluded_provider_ids, group_on_speed, group_on_technology,
            user_cb_geoids, rollup_choice, rollup_level>>

vars == <<inputs, pc, s_idx, combined_raw_df_for_state,
          combined_provider_subset_df_for_state, loc_ids, dfs_dict,
          df_merged, csv_bytes, err, failures, block_level>>

----------------------------------------------------------------------------
(* Rows and frames *)

Columns == {"provider_id", "block_geoid", "location_id",
            "max_advertised_download_speed", "business_residential_code",
            "provider_speed"}

NullOf(c) == CASE c \in {"block_geoid", "provider_speed"} -> << >>
               [] c = "business_residential_code" -> ""
               [] OTHER -> 0

Row(p, g, l, s, b) ==
    [c \in Columns |->
        CASE c = "provider_id" -> p
          [] c = "block_geoid" -> g
          [] c = "location_id" -> l
          [] c = "max_advertised_download_speed" -> s
          [] c = "business_residential_code" -> b
          [] OTHER -> NullOf(c)]

\* pl.DataFrame(): no columns, no rows
EmptyFrame == [cols |-> {}, rows |-> EmptyBag, pivot_on |-> "",
               keys |-> {}, wide |-> << >>]

LongFrame(cols, rows) == [cols |-> cols, rows |-> rows, pivot_on |-> "",
                          keys |-> {}, wide |-> << >>]

\* r with the columns outside K nulled
Project(r, K) == [c \in Columns |-> IF c \in K THEN r[c] ELSE NullOf(c)]

\* df.filter(mask): the frame with only the rows of the set keep
FilterRows(df, keep) ==
    [df EXCEPT !.rows = [r \in (DOMAIN df.rows) \cap keep |-> df.rows[r]]]

RowsOf(df) == DOMAIN df.rows

\* self.vstack(other): a frame of width 0 takes the other frame's columns.
\* Two frames of different non-zero widths raise ShapeError; every frame
\* stacked here comes from files of one snapshot (file_columns) or from the
\* same grouping branch, so the widths agree.
Vstack(self, other) ==
    IF self.cols = {} THEN other
    ELSE [self EXCEPT !.rows = self.rows (+) other.rows]

----------------------------------------------------------------------------
(* The snapshot: the listing (df1_fixed_broadband) and the files' rows *)

StateNames == {"Alabama", "Delaware"}

\* technology_code_desc values of the listing (tech_list_py)
ListedTechs == {"Cable", "Fiber to the Premises", "Licensed Fixed Wireless"}

\* 15-digit block GEOIDs: state(2) county(3) tract(6) block group(1) block(3)
BlockA1 == <<0,1, 0,0,1, 0,2,0,1,0,0, 1, 0,0,1>>
BlockA2 == <<0,1, 0,0,1, 0,2,0,1,0,0, 1, 0,0,2>>
BlockA3 == <<0,1, 0,0,1, 0,2,0,1,0,0, 2, 0,0,1>>
BlockA4 == <<0,1, 0,0,1, 0,3,0,2,0,0, 1, 0,0,1>>
BlockA5 == <<0,1, 0,0,3, 0,2,0,1,0,0, 1, 0,0,1>>
BlockD1 == <<1,0, 0,0,1, 0,4,0,1,0,0, 1, 0,0,1>>
BlockD2 == <<1,0, 0,0,3, 0,1,0,1,0,0, 1, 0,0,1>>

\* the rows of df1_fixed_broadband: one file per listed (state, technology)
Listing == {
    [file_id |-> "f1", state_name |-> "Alabama",  technology_code_desc |-> "Cable"],
    [file_id |-> "f2", state_name |-> "Alabama",  technology_code_desc |-> "Fiber to the Premises"],
    [file_id |-> "f3", state_name |-> "Alabama",  technology_code_desc |-> "Licensed Fixed Wireless"],
    [file_id |-> "f4", state_name |-> "Delaware", technology_code_desc |-> "Cable"],
    [file_id |-> "f5", state_name |-> "Delaware", technology_code_desc |-> "Fiber to the Premises"] }

\* the rows pl.read_csv returns for a file (provider, block, location, speed,
\* business/residential code)
FileRows(file_id) ==
    CASE file_id = "f1" ->
           SetToBag({ Row(222, BlockA1, 1, 100, "R"),
                      Row(222, BlockA2, 2, 1000, "B"),
                      Row(222, BlockA4, 4, 100, "R") })
      [] file_id = "f2" ->
           SetToBag({ Row(111, BlockA1, 1, 1000, "R"),
                      Row(222, BlockA1, 1, 1000, "R"),
                      Row(111, BlockA3, 3, 1000, "X"),
                      Row(111, BlockA2, 2, 100, "B") })
      [] file_id = "f3" ->
           SetToBag({ Row(111, BlockA5, 5, 100, "R"),
                      Row(222, BlockA3, 3, 100, "R"),
                      Row(111, BlockA1, 8, 100, "R") })
      [] file_id = "f4" ->
           SetToBag({ Row(222, BlockD1, 6, 100, "R"),
                      Row(111, BlockD1, 7, 100, "B") })
      [] OTHER ->
           SetToBag({ Row(111, BlockD1, 6, 1000, "R"),
                      Row(111, BlockD2, 9, 1000, "R") })

\* the columns every file of the snapshot has besides the optional
\* business_residential_code
BaseColumns == {"provider_id", "block_geoid", "location_id",
                "max_advertised_download_speed"}

\* df_raw = pl.read_csv(f) of a file of the snapshot
ReadCsv(file_id) ==
    LongFrame(file_columns,
              BagOfAll(LAMBDA r : Project(r, file_columns), FileRows(file_id)))

\* the file_ids the two filters on df1_fixed_broadband select for a state and
\* the technologies of one loop
FilesFor(state, techs) ==
    {f.file_id : f \in {g \in Listing : g.state_name = state
                                        /\ g.technology_code_desc \in techs}}

\* the vstack of the files that downloaded, starting from pl.DataFrame()
RECURSIVE VstackAll(_)
VstackAll(files) ==
    IF files = {} THEN EmptyFrame
    ELSE LET f == CHOOSE x \in files : TRUE
         IN  Vstack(VstackAll(files \ {f}), ReadCsv(f))

----------------------------------------------------------------------------
(* Aggregations *)

RECURSIVE SumOver(_, _)
\* the sum of the count column over the rows S of a bag (each row as often as
\* the bag holds it)
SumOver(S, bag) ==
    IF S = {} THEN 0
    ELSE LET r == CHOOSE x \in S : TRUE
         IN  r["location_id"] * bag[r] + SumOver(S \ {r}, bag)

MaxOf(S) == CHOOSE m \in S : \A x \in S : x <= m

\* the distinct key tuples of a frame
GroupKeys(df, K) == {Project(r, K) : r \in RowsOf(df)}

GroupMembers(df, K, k) == {r \in RowsOf(df) : Project(r, K) = k}

RECURSIVE CountOver(_, _)
\* the number of rows S of a bag
CountOver(S, bag) ==
    IF S = {} THEN 0
    ELSE LET r == CHOOSE x \in S : TRUE
         IN  bag[r] + CountOver(S \ {r}, bag)

\* a count of rows where the count of distinct location_id is meant
GroupCountRows(df, K) ==
    LongFrame(K \cup {"location_id"},
        SetToBag({ [k EXCEPT !["location_id"] = CountOver(GroupMembers(df, K, k), df.rows)]
                   : k \in GroupKeys(df, K) }))

\* group_by(K).agg(pl.col("location_id").n_unique())
GroupNUnique(df, K) ==
    LongFrame(K \cup {"location_id"},
        SetToBag({ [k EXCEPT !["location_id"] =
                        Cardinality({r["location_id"] : r \in GroupMembers(df, K, k)})]
                   : k \in GroupKeys(df, K) }))

\* group_by(K).agg(pl.col("max_advertised_download_speed").max())
GroupMaxSpeed(df, K) ==
    LongFrame(K \cup {"max_advertised_download_speed"},
        SetToBag({ [k EXCEPT !["max_advertised_download_speed"] =
                        MaxOf({r["max_advertised_download_speed"] : r \in GroupMembers(df, K, k)})]
                   : k \in GroupKeys(df, K) }))

\* the largest count of a group where the sum of its counts is meant
GroupMaxCount(df, K) ==
    LongFrame(K \cup {"location_id"},
        SetToBag({ [k EXCEPT !["location_id"] =
                        MaxOf({r["location_id"] : r \in GroupMembers(df, K, k)})]
                   : k \in GroupKeys(df, K) }))

\* group_by(K).agg(pl.col("location_id").sum())
GroupSum(df, K) ==
    LongFrame(K \cup {"location_id"},
        SetToBag({ [k EXCEPT !["location_id"] = SumOver(GroupMembers(df, K, k), df.rows)]
                   : k \in GroupKeys(df, K) }))

\* df.pivot(values="location_id", index="block_geoid", columns=col,
\*          aggregate_function="sum"): one row per index value, one generated
\* column per value of col, a cell only where some row has both
Pivot(df, col) ==
    [cols |-> {"block_geoid"},
     rows |-> EmptyBag,
     pivot_on |-> col,
     keys |-> {r[col] : r \in RowsOf(df)},
     wide |-> [g \in {r["block_geoid"] : r \in RowsOf(df)} |->
                 [k \in {r[col] : r \in {x \in RowsOf(df) : x["block_geoid"] = g}} |->
                     SumOver({r \in RowsOf(df) : r["block_geoid"] = g /\ r[col] = k},
                             df.rows)]]]

\* level.lower().strip() of the selectbox options
Lower(level) ==
    CASE level = "State" -> "state"
      [] level = "County" -> "county"
      [] level = "Tract" -> "tract"
      [] level = "CBG" -> "cbg"
      [] OTHER -> level

_block_geoid_prefix_len(level) ==
    CASE Lower(level) = "state" -> 2
      [] Lower(level) = "county" -> 5
      [] Lower(level) = "tract" -> 11
      [] Lower(level) \in {"cbg", "block group", "blockgroup"} -> 12
      [] OTHER -> 15

\* pl.col("block_geoid").cast(pl.Utf8).str.slice(0, prefix_len)
Slice(geoid, prefix_len) ==
    SubSeq(geoid, 1, IF Len(geoid) < prefix_len THEN Len(geoid) ELSE prefix_len)

Truncate(df, prefix_len) ==
    [df EXCEPT !.rows =
        BagOfAll(LAMBDA r : [r EXCEPT !["block_geoid"] = Slice(@, prefix_len)], @)]

\* provider_id.cast(Utf8) + "_" + max_advertised_download_speed.cast(Utf8):
\* the pair of the two integers stands for the string (decimal digits hold
\* no "_", so distinct pairs give distinct strings)
WithProviderSpeed(df) ==
    [df EXCEPT !.cols = @ \cup {"provider_speed"},
               !.rows = BagOfAll(LAMBDA r : [r EXCEPT !["provider_speed"] =
                             <<r["provider_id"], r["max_advertised_download_speed"]>>], @)]

----------------------------------------------------------------------------
(* Widget values *)

YN == {"y", "n"}

\* parse_int_list of the two provider text inputs
ProviderLists == SUBSET {111, 222}

\* parse_str_list / DEFAULT_STATES restricted to the states of the snapshot
StateLists == {<<"Alabama">>, <<"Delaware">>,
               <<"Alabama", "Delaware">>, <<"Delaware", "Alabama">>}

\* the frame a name holds before its first assignment is irrelevant; an
\* unbound name is << >>, a bound one <<frame>>
Unbound == << >>

InitRun ==
    /\ pc = "download"
    /\ s_idx = 1
    /\ combined_raw_df_for_state = EmptyFrame
    /\ combined_provider_subset_df_for_state = Unbound
    /\ loc_ids = {}
    /\ dfs_dict = << >>
    /\ df_merged = EmptyFrame
    /\ csv_bytes = << >>
    /\ err = [kind |-> "none", at |-> ""]
    /\ failures = 0
    /\ block_level = << >>

InitWidgets ==
    /\ file_columns \in {BaseColumns,
                         BaseColumns \cup {"business_residential_code"}}
    /\ states_of_interest \in StateLists
    /\ tech_of_interest_list \in (SUBSET ListedTechs) \ {{}}
    /\ resi_choice \in YN
    /\ include_location_providers \in YN
    /\ location_provider_ids \in
          IF include_location_providers = "y" THEN ProviderLists ELSE {{}}
    /\ include_provider_subset \in YN
    /\ provider_subset_tech \in
          IF include_provider_subset = "y" THEN SUBSET ListedTechs ELSE {{}}
    /\ excluded_provider_ids \in ProviderLists
    /\ group_on_speed \in YN
    /\ group_on_technology \in YN
    /\ user_cb_geoids \in {<< >>, <<{BlockA1, BlockA5, BlockD1}>>}
    /\ rollup_choice \in YN
    /\ rollup_level \in
          IF rollup_choice = "y" THEN {"State", "County", "Tract", "CBG"}
          ELSE {""}

----------------------------------------------------------------------------
(* run_export *)

state == states_of_interest[s_idx]

\* an error that is recorded and then skipped: the loop is left and the
\* states stored so far are merged and exported
AbortContinue(kind) ==
    /\ pc' = "merge"
    /\ err' = [kind |-> kind, at |-> pc]
    /\ UNCHANGED <<inputs, s_idx, dfs_dict, df_merged, csv_bytes, failures,
                   block_level>>

\* an uncaught exception or st.stop(): the script run ends here (err keeps
\* what was raised and in which step)
Abort(kind) ==
    /\ pc' = "aborted"
    /\ err' = [kind |-> kind, at |-> pc]
    /\ UNCHANGED <<inputs, s_idx, dfs_dict, df_merged, csv_bytes, failures,
                   block_level>>

\* the footprint taken from the technologies selected for the export
tech_listOfInterest ==
    IF include_provider_subset = "y" THEN provider_subset_tech
    ELSE tech_of_interest_list

\* the chosen subset ignored: every listed technology is downloaded
tech_listAllListed ==
    IF include_provider_subset = "y" THEN ListedTechs
    ELSE {"Cable", "Copper", "Fiber to the Premises"}

\* the technologies of the provider-subset re-download
tech_list ==
    IF include_provider_subset = "y" THEN provider_subset_tech
    ELSE {"Cable", "Copper", "Fiber to the Premises"}

\* The download loops of one state.  Each request answers 200 or not; the
\* re-download of the last technology iteration is the one whose frame is
\* left in combined_provider_subset_df_for_state.
DownloadState ==
    /\ pc = "download"
    /\ \E failed \in SUBSET FilesFor(state, tech_of_interest_list),
          failed_subset \in SUBSET FilesFor(state, tech_list) :
          /\ include_location_providers = "n" => failed_subset = {}
          /\ failures + Cardinality(failed) + Cardinality(failed_subset) <= MaxFailures
          /\ failures' = failures + Cardinality(failed) + Cardinality(failed_subset)
          /\ combined_raw_df_for_state' =
                VstackAll(FilesFor(state, tech_of_interest_list) \ failed)
          /\ combined_provider_subset_df_for_state' =
                IF include_location_providers = "y"
                THEN <<VstackAll(FilesFor(state, tech_list) \ failed_subset)>>
                ELSE combined_provider_subset_df_for_state
    /\ pc' = "resi"
    /\ UNCHANGED <<inputs, s_idx, loc_ids, dfs_dict, df_merged, csv_bytes, err,
                   block_level>>

\* the mask business_residential_code != "B"
NotB(df) == {r \in RowsOf(df) : r["business_residential_code"] # "B"}

\* "Apply filters": both frames are filtered when resi_choice is "y"
ResidentialFilter ==
    /\ pc = "resi"
    /\ UNCHANGED loc_ids
    /\ IF resi_choice # "y"
       THEN /\ pc' = "locfilter"
            /\ UNCHANGED <<inputs, s_idx, combined_raw_df_for_state,
                           combined_provider_subset_df_for_state, dfs_dict,
                           df_merged, csv_bytes, err, failures, block_level>>
       ELSE IF "business_residential_code" \notin combined_raw_df_for_state.cols
       THEN /\ Abort("ColumnNotFoundError")
            /\ UNCHANGED <<combined_raw_df_for_state,
                           combined_provider_subset_df_for_state>>
       ELSE /\ combined_raw_df_for_state' =
                  FilterRows(combined_raw_df_for_state, NotB(combined_raw_df_for_state))
            /\ IF combined_provider_subset_df_for_state = Unbound
               THEN /\ Abort("NameError")
                    /\ UNCHANGED combined_provider_subset_df_for_state
               ELSE IF "business_residential_code"
                          \notin combined_provider_subset_df_for_state[1].cols
               THEN /\ Abort("ColumnNotFoundError")
                    /\ UNCHANGED combined_provider_subset_df_for_state
               ELSE /\ combined_provider_subset_df_for_state' =
                          <<FilterRows(combined_provider_subset_df_for_state[1],
                                       NotB(combined_provider_subset_df_for_state[1]))>>
                    /\ pc' = "locfilter"
                    /\ UNCHANGED <<inputs, s_idx, dfs_dict, df_merged, csv_bytes,
                                   err, failures, block_level>>

\* the location set resolved after the exclusion: the excluded anchors no
\* longer define locations
LocIdsOfNotExcluded(df, providers) ==
    {r["location_id"] :
        r \in {x \in RowsOf(df) :
                  x["provider_id"] \in providers \ excluded_provider_ids}}

\* filter(provider_id.is_in(location_provider_ids))["location_id"].unique()
LocIdsOf(df, providers) ==
    {r["location_id"] : r \in {x \in RowsOf(df) : x["provider_id"] \in providers}}

\* "Apply location provider logic"
LocationProviderFilter ==
    /\ pc = "locfilter"
    /\ UNCHANGED combined_provider_subset_df_for_state
    /\ IF location_provider_ids = {}
       THEN /\ pc' = "exclude"
            /\ UNCHANGED <<inputs, s_idx, combined_raw_df_for_state, loc_ids,
                           dfs_dict, df_merged, csv_bytes, err, failures,
                           block_level>>
       ELSE IF ~({"provider_id", "location_id"}
                    \subseteq combined_provider_subset_df_for_state[1].cols)
       THEN /\ Abort("ColumnNotFoundError")
            /\ UNCHANGED <<combined_raw_df_for_state, loc_ids>>
       ELSE /\ loc_ids' = LocIdsOf(combined_provider_subset_df_for_state[1],
                                   location_provider_ids)
            /\ IF "location_id" \notin combined_raw_df_for_state.cols
               THEN /\ Abort("ColumnNotFoundError")
                    /\ UNCHANGED combined_raw_df_for_state
               ELSE /\ combined_raw_df_for_state' =
                          FilterRows(combined_raw_df_for_state,
                              {r \in RowsOf(combined_raw_df_for_state) :
                                   r["location_id"] \in loc_ids'})
                    /\ pc' = "exclude"
                    /\ UNCHANGED <<inputs, s_idx, dfs_dict, df_merged, csv_bytes,
                                   err, failures, block_level>>

\* the mask without its negation
OnlyExcluded(df) ==
    {r \in RowsOf(df) : r["provider_id"] \in excluded_provider_ids}

\* the mask ~provider_id.is_in(excluded_provider_ids)
NotExcluded(df) ==
    {r \in RowsOf(df) : r["provider_id"] \notin excluded_provider_ids}

\* "Exclude providers"
ExcludeProviders ==
    /\ pc = "exclude"
    /\ UNCHANGED <<combined_provider_subset_df_for_state, loc_ids>>
    /\ IF excluded_provider_ids = {}
       THEN /\ pc' = "speed"
            /\ UNCHANGED <<inputs, s_idx, combined_raw_df_for_state, dfs_dict,
                           df_merged, csv_bytes, err, failures, block_level>>
       ELSE IF "provider_id" \notin combined_raw_df_for_state.cols
       THEN /\ Abort("ColumnNotFoundError")
            /\ UNCHANGED combined_raw_df_for_state
       ELSE /\ combined_raw_df_for_state' =
                  FilterRows(combined_raw_df_for_state,
                             NotExcluded(combined_raw_df_for_state))
            /\ pc' = "speed"
            /\ UNCHANGED <<inputs, s_idx, dfs_dict, df_merged, csv_bytes, err,
                           failures, block_level>>

SpeedKeys == {"provider_id", "block_geoid", "location_id"}

\* "Group by speed tier if selected": one row per provider, block and location
\* with the largest advertised speed
SpeedCollapse ==
    /\ pc = "speed"
    /\ UNCHANGED <<combined_provider_subset_df_for_state, loc_ids>>
    /\ IF group_on_speed # "y"
       THEN /\ pc' = "group"
            /\ UNCHANGED <<inputs, s_idx, combined_raw_df_for_state, dfs_dict,
                           df_merged, csv_bytes, err, failures, block_level>>
       ELSE IF ~(SpeedKeys \cup {"max_advertised_download_speed"}
                    \subseteq combined_raw_df_for_state.cols)
       THEN /\ Abort("ColumnNotFoundError")
            /\ UNCHANGED combined_raw_df_for_state
       ELSE /\ combined_raw_df_for_state' =
                  GroupMaxSpeed(combined_raw_df_for_state, SpeedKeys)
            /\ pc' = "group"
            /\ UNCHANGED <<inputs, s_idx, dfs_dict, df_merged, csv_bytes, err,
                           failures, block_level>>

\* the two first branches in the other order
GroupingKeysSpeedFirst ==
    IF group_on_speed = "y"
    THEN {"provider_id", "block_geoid", "max_advertised_download_speed"}
    ELSE IF group_on_technology = "y" THEN {"block_geoid"}
         ELSE {"provider_id", "block_geoid"}

\* the key columns of the branch the if / elif / else of "Grouping options"
\* takes
GroupingKeys ==
    IF group_on_technology = "y" THEN {"block_geoid"}
    ELSE IF group_on_speed = "y"
         THEN {"provider_id", "block_geoid", "max_advertised_download_speed"}
         ELSE {"provider_id", "block_geoid"}

\* "Grouping options"
Grouping ==
    /\ pc = "group"
    /\ UNCHANGED <<combined_provider_subset_df_for_state, loc_ids>>
    /\ IF ~(GroupingKeys \cup {"location_id"} \subseteq combined_raw_df_for_state.cols)
       THEN /\ Abort("ColumnNotFoundError")
            /\ UNCHANGED combined_raw_df_for_state
       ELSE /\ combined_raw_df_for_state' =
                  GroupNUnique(combined_raw_df_for_state, GroupingKeys)
            /\ pc' = "cbfilter"
            /\ UNCHANGED <<inputs, s_idx, dfs_dict, df_merged, csv_bytes, err,
                           failures, block_level>>

\* "Filter by uploaded CBs"
FilterUploadedCBs ==
    /\ pc = "cbfilter"
    /\ combined_raw_df_for_state' =
          IF user_cb_geoids # << >>
          THEN FilterRows(combined_raw_df_for_state,
                   {r \in RowsOf(combined_raw_df_for_state) :
                        r["block_geoid"] \in user_cb_geoids[1]})
          ELSE combined_raw_df_for_state
    /\ pc' = "rollup"
    /\ UNCHANGED <<inputs, s_idx, combined_provider_subset_df_for_state, loc_ids,
                   dfs_dict, df_merged, csv_bytes, err, failures, block_level>>

pivot_needed == (group_on_technology = "n") \/ (group_on_speed = "y")

\* the per-state long-form pre-aggregation of a truncated frame
PreAggregate(df) ==
    IF pivot_needed /\ "provider_id" \in df.cols
    THEN IF /\ group_on_technology = "n"
            /\ group_on_speed = "y"
            /\ "max_advertised_download_speed" \in df.cols
         THEN GroupSum(WithProviderSpeed(df), {"block_geoid", "provider_speed"})
         ELSE GroupSum(df, {"block_geoid", "provider_id"})
    ELSE GroupSum(df, {"block_geoid"})

\* "roll up within each state before vstack".  block_level keeps, per state,
\* the frame that entered the rollup.
Rollup ==
    /\ pc = "rollup"
    /\ UNCHANGED <<combined_provider_subset_df_for_state, loc_ids>>
    /\ IF rollup_choice # "y"
       THEN /\ pc' = "store"
            /\ UNCHANGED <<inputs, s_idx, combined_raw_df_for_state, dfs_dict,
                           df_merged, csv_bytes, err, failures, block_level>>
       ELSE IF \/ "block_geoid" \notin combined_raw_df_for_state.cols
               \/ "location_id" \notin combined_raw_df_for_state.cols
       THEN /\ Abort("st.stop")
            /\ UNCHANGED combined_raw_df_for_state
       ELSE /\ combined_raw_df_for_state' =
                  PreAggregate(Truncate(combined_raw_df_for_state,
                                        _block_geoid_prefix_len(rollup_level)))
            /\ block_level' = (state :> combined_raw_df_for_state) @@ block_level
            /\ pc' = "store"
            /\ UNCHANGED <<inputs, s_idx, dfs_dict, df_merged, csv_bytes, err,
                           failures>>

\* dfs_dict[state] = combined_raw_df_for_state, then the next state
StoreState ==
    /\ pc = "store"
    /\ dfs_dict' = (state :> combined_raw_df_for_state) @@ dfs_dict
    /\ IF s_idx = Len(states_of_interest)
       THEN pc' = "merge" /\ UNCHANGED s_idx
       ELSE pc' = "download" /\ s_idx' = s_idx + 1
    /\ UNCHANGED <<inputs, combined_raw_df_for_state,
                   combined_provider_subset_df_for_state, loc_ids, df_merged,
                   csv_bytes, err, failures, block_level>>

RECURSIVE VstackFrames(_)
\* pl.DataFrame() with every frame of dfs_dict stacked onto it
VstackFrames(names) ==
    IF names = {} THEN EmptyFrame
    ELSE LET n == CHOOSE x \in names : TRUE
         IN  Vstack(VstackFrames(names \ {n}), dfs_dict[n])

\* "Merge all states"
MergeStates ==
    /\ pc = "merge"
    /\ df_merged' = VstackFrames(DOMAIN dfs_dict)
    /\ pc' = "pivot"
    /\ UNCHANGED <<inputs, s_idx, combined_raw_df_for_state,
                   combined_provider_subset_df_for_state, loc_ids, dfs_dict,
                   csv_bytes, err, failures, block_level>>

\* the choice of the pivot column without the test of rollup_choice
PivotColumnAlways(df) ==
    IF pivot_needed
    THEN IF "provider_speed" \in df.cols THEN "provider_speed"
         ELSE IF "provider_id" \in df.cols THEN "provider_id"
         ELSE ""
    ELSE ""

\* the column the final pivot spreads, "" for no pivot
PivotColumn(df) ==
    IF rollup_choice = "y" /\ pivot_needed
    THEN IF "provider_speed" \in df.cols THEN "provider_speed"
         ELSE IF "provider_id" \in df.cols THEN "provider_id"
         ELSE ""
    ELSE ""

\* "Now (at the very end), pivot everything if needed"
FinalPivot ==
    /\ pc = "pivot"
    /\ df_merged' = IF PivotColumn(df_merged) = "" THEN df_merged
                    ELSE Pivot(df_merged, PivotColumn(df_merged))
    /\ pc' = "output"
    /\ UNCHANGED <<inputs, s_idx, combined_raw_df_for_state,
                   combined_provider_subset_df_for_state, loc_ids, dfs_dict,
                   csv_bytes, err, failures, block_level>>

\* df_merged.write_csv() and the download button
WriteOutput ==
    /\ pc = "output"
    /\ csv_bytes' = <<df_merged>>
    /\ pc' = "done"
    /\ UNCHANGED <<inputs, s_idx, combined_raw_df_for_state,
                   combined_provider_subset_df_for_state, loc_ids, dfs_dict,
                   df_merged, err, failures, block_level>>

Next ==
    \/ DownloadState
    \/ ResidentialFilter
    \/ LocationProviderFilter
    \/ ExcludeProviders
    \/ SpeedCollapse
    \/ Grouping
    \/ FilterUploadedCBs
    \/ Rollup
    \/ StoreState
    \/ MergeStates
    \/ FinalPivot
    \/ WriteOutput

\* Runs that vary the snapshot's columns, the filters' widgets, the selected
\* states and technologies and the rollup; default grouping, no uploaded list.
FilterRuns ==
    /\ group_on_speed = "n"
    /\ group_on_technology = "n"
    /\ user_cb_geoids = << >>
    /\ rollup_level \in {"", "County"}
    /\ states_of_interest \in StateLists \ {<<"Delaware">>}
    /\ excluded_provider_ids \in ProviderLists \ {{111}}
    /\ include_location_providers \in YN
    /\ include_provider_subset \in
          (IF include_location_providers = "y" THEN YN ELSE {"n"})

\* Runs that vary the grouping flags, the rollup level, the uploaded list,
\* the exclusion list and the selected states and technologies; every file
\* has the business_residential_code column.
AggregationRuns ==
    /\ file_columns = BaseColumns \cup {"business_residential_code"}
    /\ include_provider_subset = "n"
    /\ location_provider_ids \in {{}, {111}}
    /\ include_location_providers = (IF location_provider_ids = {} THEN "n" ELSE "y")
    /\ resi_choice \in (IF include_location_providers = "y" THEN YN ELSE {"n"})

Init == FilterRuns /\ InitWidgets /\ InitRun

Spec == Init /\ [][Next]_vars

InitAgg == AggregationRuns /\ InitWidgets /\ InitRun

SpecAgg == InitAgg /\ [][Next]_vars

----------------------------------------------------------------------------
(* Properties *)

TechnologyColumns == {"block_geoid", "location_id"}

\* a long frame with exactly the columns block_geoid and location_id (the
\* count), no provider_id, speed or provider_speed column
TechnologyShaped(df) ==
    /\ df.cols = TechnologyColumns
    /\ df.pivot_on = ""
    /\ \A r \in RowsOf(df) : r = Project(r, TechnologyColumns)

\* C1: with group_on_technology and group_on_speed both "y" the grouping
\* takes the technology-only branch: the grouped frame of the state, every
\* frame stored for a state, the merged frame and the exported frame have
\* the columns block_geoid and location_id only, and each stored state frame
\* has one row per block_geoid.
C1_TechnologyWinsOverSpeed ==
    (group_on_technology = "y" /\ group_on_speed = "y") =>
        /\ pc \in {"cbfilter", "rollup", "store"} =>
              TechnologyShaped(combined_raw_df_for_state)
        /\ \A s \in DOMAIN dfs_dict :
              /\ TechnologyShaped(dfs_dict[s])
              /\ \A r1, r2 \in RowsOf(dfs_dict[s]) :
                    r1["block_geoid"] = r2["block_geoid"] => r1 = r2
              /\ \A r \in RowsOf(dfs_dict[s]) : dfs_dict[s].rows[r] = 1
        /\ pc \in {"pivot", "output", "done"} => TechnologyShaped(df_merged)
        /\ csv_bytes # << >> => TechnologyShaped(csv_bytes[1])

C1_Witness ==
    /\ pc = "done"
    /\ group_on_technology = "y"
    /\ group_on_speed = "y"
    /\ rollup_choice = "y"
    /\ Len(states_of_interest) = 2
    /\ \E r \in RowsOf(csv_bytes[1]) : r["location_id"] >= 2

\* the rows of a frame that belong to the group of row k under the key
\* columns K
SameGroup(df, K, k) == {r \in RowsOf(df) : \A c \in K : r[c] = k[c]}

\* C8: the grouping step counts distinct location_id values, not rows: under
\* default grouping each (provider_id, block_geoid) of the filtered frame
\* gets one row whose count is the number of distinct location_id values of
\* that group, and under group_on_technology each block_geoid gets one row
\* whose count is the number of distinct location_id values in the block.
C8_CountsDistinctLocations ==
    [][ (pc = "group" /\ pc' = "cbfilter"
            /\ (group_on_technology = "y" \/ group_on_speed = "n")) =>
          LET K   == IF group_on_technology = "y" THEN {"block_geoid"}
                     ELSE {"provider_id", "block_geoid"}
              in  == combined_raw_df_for_state
              out == combined_raw_df_for_state'
          IN  /\ \A r \in RowsOf(in) : \E o \in RowsOf(out) : \A c \in K : o[c] = r[c]
              /\ \A o \in RowsOf(out) :
                    /\ out.rows[o] = 1
                    /\ SameGroup(out, K, o) = {o}
                    /\ SameGroup(in, K, o) # {}
                    /\ o["location_id"] =
                          Cardinality({r["location_id"] : r \in SameGroup(in, K, o)})
      ]_vars

\* Alabama with all three technologies: block A1 holds location 1 under both
\* providers (and under two technologies of provider 222) and location 8,
\* and is counted 2
C8_Witness ==
    /\ pc = "cbfilter"
    /\ group_on_technology = "y"
    /\ state = "Alabama"
    /\ tech_of_interest_list = ListedTechs
    /\ failures = 0
    /\ \E r \in RowsOf(combined_raw_df_for_state) :
          r["block_geoid"] = BlockA1 /\ r["location_id"] = 2

\* the key a block-level row contributes to under the run's grouping flags:
\* provider and speed, provider, or nothing (technology grouping)
RollupKey(r) ==
    IF group_on_technology = "y" THEN << >>
    ELSE IF group_on_speed = "y"
         THEN <<r["provider_id"], r["max_advertised_download_speed"]>>
         ELSE <<r["provider_id"]>>

RECURSIVE OnePassTotal(_, _, _)
\* the sum, over the block-level frames of the states S taken together, of
\* the counts of the rows whose truncated block_geoid is g and whose key is k
OnePassTotal(S, g, k) ==
    IF S = {} THEN 0
    ELSE LET s == CHOOSE x \in S : TRUE
             n == _block_geoid_prefix_len(rollup_level)
         IN  SumOver({r \in RowsOf(block_level[s]) :
                          Slice(r["block_geoid"], n) = g /\ RollupKey(r) = k},
                     block_level[s].rows)
             + OnePassTotal(S \ {s}, g, k)

OnePassCells ==
    UNION {{<<Slice(r["block_geoid"], _block_geoid_prefix_len(rollup_level)),
              RollupKey(r)>> : r \in RowsOf(block_level[s])} : s \in DOMAIN block_level}

\* the cells of the merged frame as (geoid, key) pairs with their totals
MergedKey(k) ==
    IF df_merged.pivot_on = "provider_id" THEN <<k>> ELSE k

MergedCells ==
    IF df_merged.pivot_on # ""
    THEN UNION {{<<g, MergedKey(k)>> : k \in DOMAIN df_merged.wide[g]} :
                    g \in DOMAIN df_merged.wide}
    ELSE {<<r["block_geoid"], << >>>> : r \in RowsOf(df_merged)}

MergedTotal(g, k) ==
    IF df_merged.pivot_on = "provider_id" THEN df_merged.wide[g][k[1]]
    ELSE IF df_merged.pivot_on = "provider_speed" THEN df_merged.wide[g][k]
    ELSE SumOver({r \in RowsOf(df_merged) : r["block_geoid"] = g}, df_merged.rows)

\* C2: with rollup requested, the totals of the final frame (per-state
\* truncation and pre-sum, concatenation, pivot with sum) are, for every
\* rolled-up geoid and key, the totals of truncating and summing all the
\* states' block-level frames in one pass, and the same (geoid, key) cells
\* exist.
C2_RollupAssociative ==
    (pc \in {"output", "done"} /\ rollup_choice = "y") =>
        /\ MergedCells = OnePassCells
        /\ \A c \in MergedCells :
              MergedTotal(c[1], c[2]) = OnePassTotal(DOMAIN block_level, c[1], c[2])

C2_Witness ==
    /\ pc = "done"
    /\ rollup_choice = "y"
    /\ df_merged.pivot_on # ""
    /\ Len(states_of_interest) = 2
    /\ \E g1, g2 \in DOMAIN df_merged.wide : g1[1] # g2[1]
    /\ \E g \in DOMAIN df_merged.wide : \E k \in DOMAIN df_merged.wide[g] :
          /\ df_merged.wide[g][k] >= 3
          /\ \E s \in DOMAIN block_level :
                Cardinality({r \in RowsOf(block_level[s]) :
                    Slice(r["block_geoid"], Len(g)) = g
                    /\ RollupKey(r) = MergedKey(k)}) >= 2

\* C9: no frame of a state is ever pivoted; the merged frame is pivoted at
\* most once, in the step after the merge, when every state of the run has
\* been stored and stacked, and only if rollup was requested; the pivot
\* column is provider_speed if the merged frame has it, else provider_id if
\* it has it, else there is no pivot; each cell is the sum of the counts of
\* the merged rows with that rolled-up block_geoid and key.
C9_DeferredSinglePivot ==
    [][ /\ combined_raw_df_for_state'.pivot_on = ""
        /\ \A s \in DOMAIN dfs_dict' : dfs_dict'[s].pivot_on = ""
        /\ df_merged.pivot_on # "" => df_merged' = df_merged
        /\ df_merged'.pivot_on # df_merged.pivot_on =>
              /\ pc = "pivot"
              /\ rollup_choice = "y"
              /\ DOMAIN dfs_dict = {states_of_interest[i] : i \in DOMAIN states_of_interest}
              /\ df_merged = VstackFrames(DOMAIN dfs_dict)
        /\ pc = "pivot" =>
              /\ df_merged'.pivot_on =
                    IF rollup_choice # "y" THEN ""
                    ELSE IF "provider_speed" \in df_merged.cols THEN "provider_speed"
                    ELSE IF "provider_id" \in df_merged.cols THEN "provider_id"
                    ELSE ""
              /\ df_merged'.pivot_on = "" => df_merged' = df_merged
              /\ df_merged'.pivot_on # "" =>
                    LET col == df_merged'.pivot_on
                    IN  /\ DOMAIN df_merged'.wide = {r["block_geoid"] : r \in RowsOf(df_merged)}
                        /\ \A r \in RowsOf(df_merged) :
                              /\ r[col] \in DOMAIN df_merged'.wide[r["block_geoid"]]
                              /\ df_merged'.wide[r["block_geoid"]][r[col]] =
                                    SumOver({x \in RowsOf(df_merged) :
                                                /\ x["block_geoid"] = r["block_geoid"]
                                                /\ x[col] = r[col]},
                                            df_merged.rows)
      ]_vars

C9_Witness ==
    /\ pc = "output"
    /\ df_merged.pivot_on = "provider_speed"
    /\ Len(states_of_interest) = 2
    /\ Cardinality(DOMAIN df_merged.wide) >= 2

\* the technologies whose files make the footprint when no subset is chosen
NoSubsetTechs == {"Cable", "Copper", "Fiber to the Premises"}

\* every file of the state for the technologies techs, residential-filtered
\* when resi_choice is "y": the largest footprint frame a run can download
FullFootprint(techs) ==
    LET all == VstackAll(FilesFor(state, techs))
    IN  IF resi_choice = "y" THEN FilterRows(all, NotB(all)) ELSE all

AnchorsResolved ==
    pc = "locfilter" /\ pc' = "exclude" /\ location_provider_ids # {}

\* C3 as stated: with anchors P and no technology subset the location set is
\* exactly the distinct location_id values of the state's downloaded rows
\* whose provider_id is in P.
C3_FromDownloadedRows ==
    [][ (AnchorsResolved /\ include_provider_subset = "n") =>
            loc_ids' = {r["location_id"] :
                           r \in {x \in RowsOf(combined_raw_df_for_state) :
                                      x["provider_id"] \in location_provider_ids}}
      ]_vars

\* C3 amended: with anchors P and no technology subset the location set is
\* exactly the distinct location_id values of the rows with provider_id in P
\* of the state's re-downloaded footprint frame, which holds rows of the
\* state's Cable, Copper and Fiber to the Premises files only (all of them
\* when every request succeeded and the residential filter is off); the
\* membership filter keeps exactly the rows of the state's frame whose
\* location_id is in that set.
C3_FromFootprintFrame ==
    [][ (AnchorsResolved /\ include_provider_subset = "n") =>
          LET foot == combined_provider_subset_df_for_state[1]
              in   == combined_raw_df_for_state
              out  == combined_raw_df_for_state'
          IN  /\ \A l \in loc_ids' : \E r \in RowsOf(foot) :
                    r["location_id"] = l /\ r["provider_id"] \in location_provider_ids
              /\ \A r \in RowsOf(foot) :
                    r["provider_id"] \in location_provider_ids => r["location_id"] \in loc_ids'
              /\ RowsOf(foot) \subseteq RowsOf(FullFootprint(NoSubsetTechs))
              /\ failures' = 0 => RowsOf(foot) = RowsOf(FullFootprint(NoSubsetTechs))
              /\ RowsOf(out) = {r \in RowsOf(in) : r["location_id"] \in loc_ids'}
              /\ \A r \in RowsOf(out) : out.rows[r] = in.rows[r]
      ]_vars

\* export of Cable only with anchor 111, which has no Cable row: the location
\* set comes from the Fiber file and the Cable rows at its locations are kept
C3_Witness ==
    /\ pc = "exclude"
    /\ location_provider_ids = {111}
    /\ include_provider_subset = "n"
    /\ tech_of_interest_list = {"Cable"}
    /\ state = "Alabama"
    /\ loc_ids = {1, 2, 3}
    /\ {r["location_id"] : r \in RowsOf(combined_raw_df_for_state)} = {1, 2}
    /\ \A r \in RowsOf(combined_raw_df_for_state) : r["provider_id"] = 222

\* C4 as stated: the location set resolved with a technology subset T is a
\* subset of the set resolved with the same P and no subset.
C4_SubsetOfUnrestricted ==
    (pc = "exclude" /\ location_provider_ids # {} /\ include_provider_subset = "y") =>
        loc_ids \subseteq LocIdsOf(FullFootprint(NoSubsetTechs), location_provider_ids)

\* C4 amended: for a technology subset T within {Cable, Copper, Fiber to the
\* Premises} the location set resolved with T is a subset of the set resolved
\* with the same P, no subset and every footprint file downloaded.
C4_SubsetWithinDefaultTechs ==
    (/\ pc = "exclude"
     /\ location_provider_ids # {}
     /\ include_provider_subset = "y"
     /\ provider_subset_tech \subseteq NoSubsetTechs) =>
        loc_ids \subseteq LocIdsOf(FullFootprint(NoSubsetTechs), location_provider_ids)

C4_Witness ==
    /\ pc = "exclude"
    /\ location_provider_ids # {}
    /\ include_provider_subset = "y"
    /\ provider_subset_tech # {}
    /\ provider_subset_tech \subseteq NoSubsetTechs
    /\ failures = 0
    /\ loc_ids # {}
    /\ loc_ids # LocIdsOf(FullFootprint(NoSubsetTechs), location_provider_ids)

\* the provider ids that key a frame: provider_id values of a long frame,
\* generated columns of a frame pivoted on provider_id
ProvidersIn(df) ==
    IF df.pivot_on = "provider_id" THEN df.keys
    ELSE {r["provider_id"] : r \in RowsOf(df)}

\* C5: with a non-empty exclusion list the exclusion step removes every row
\* whose provider_id is in the list and keeps every other row unchanged, and
\* no excluded provider keys a row or column of a stored state frame, of the
\* merged frame or of the export.
C5_ExclusionSubtractive ==
    [][ excluded_provider_ids # {} =>
          /\ (pc = "exclude" /\ pc' = "speed") =>
                LET in  == combined_raw_df_for_state
                    out == combined_raw_df_for_state'
                IN  /\ RowsOf(out) = {r \in RowsOf(in) :
                                         ~(r["provider_id"] \in excluded_provider_ids)}
                    /\ \A r \in RowsOf(out) : out.rows[r] = in.rows[r]
                    /\ out.cols = in.cols
          /\ \A s \in DOMAIN dfs_dict' :
                ProvidersIn(dfs_dict'[s]) \cap excluded_provider_ids = {}
          /\ ProvidersIn(df_merged') \cap excluded_provider_ids = {}
          /\ csv_bytes' # << >> =>
                ProvidersIn(csv_bytes'[1]) \cap excluded_provider_ids = {}
      ]_vars

C5_Witness ==
    /\ pc = "done"
    /\ excluded_provider_ids = {222}
    /\ "Cable" \in tech_of_interest_list
    /\ location_provider_ids = {}
    /\ failures = 0
    /\ ProvidersIn(csv_bytes[1]) = {111}

\* C6 as stated: each filter is silently skippable and never fails the run;
\* in particular, with the residential flag set and no anchor providers
\* requested, the residential filter of a frame that has the
\* business_residential_code column completes.
C6_ResidentialFilterCompletes ==
    ~(/\ pc = "aborted"
      /\ err.at = "resi"
      /\ resi_choice = "y"
      /\ include_location_providers = "n"
      /\ "business_residential_code" \in combined_raw_df_for_state.cols)

C10_FatalErrorAbortsRun ==
    err.kind # "none" =>
        /\ pc = "aborted"
        /\ csv_bytes = << >>
        /\ df_merged = EmptyFrame
        /\ DOMAIN dfs_dict = {states_of_interest[i] : i \in 1..(s_idx - 1)}

C10_Witness ==
    /\ pc = "aborted"
    /\ s_idx = 2
    /\ "Alabama" \in DOMAIN dfs_dict
    /\ RowsOf(dfs_dict["Alabama"]) # {}
    /\ csv_bytes = << >>

\* C11 as stated: whenever anchor providers are requested and no technology
\* subset is chosen (the subset option answered "n", or answered "y" with
\* the selection left blank) the footprint frame of the state is built from
\* the state's Cable, Copper and Fiber to the Premises files: it holds rows
\* of those files only, and is their stack when every request succeeded.
C11_DefaultTechnologyTriple ==
    (/\ pc = "resi"
     /\ include_location_providers = "y"
     /\ (include_provider_subset = "n" \/ provider_subset_tech = {})) =>
        LET foot == combined_provider_subset_df_for_state[1]
            full == VstackAll(FilesFor(state, NoSubsetTechs))
        IN  /\ RowsOf(foot) \subseteq RowsOf(full)
            /\ failures = 0 => foot = full

\* the frame of the state as downloaded (every request answered 200) and
\* residential-filtered, before any provider filter
Downloaded == FullFootprint(tech_of_interest_list)

\* the locations of the anchors' rows in the footprint frame of a run with no
\* technology subset, excluded anchors included
AnchorFootprint ==
    {r["location_id"] :
        r \in {x \in RowsOf(FullFootprint(NoSubsetTechs)) :
                  x["provider_id"] \in location_provider_ids}}

\* the rows of the state's frame at the anchors' locations whose provider is
\* not excluded
KeptRows ==
    FilterRows(Downloaded,
        {r \in RowsOf(Downloaded) :
            /\ r["location_id"] \in AnchorFootprint
            /\ r["provider_id"] \notin excluded_provider_ids})

\* C12: within each state the steps act in the order location set and
\* membership filter, provider exclusion, speed collapse, grouping.  The
\* location set is resolved from all the anchors' rows, excluded anchors
\* included, on a frame nothing has been excluded from; the exclusion acts
\* on the ungrouped frame already restricted to the location set; the speed
\* collapse and the grouping see no excluded provider and no location
\* outside the set; and the grouped frame is the grouping of the rows of
\* non-excluded providers at the anchors' locations, so that an anchor that
\* is also excluded has its own rows dropped while the other providers'
\* rows at its locations are kept and counted.
C12_FilterOrdering ==
    [][ LET in  == combined_raw_df_for_state
            out == combined_raw_df_for_state'
        IN  /\ (pc = "locfilter" /\ pc' = "exclude" /\ location_provider_ids # {}) =>
                  /\ loc_ids' =
                        {r["location_id"] :
                            r \in {x \in RowsOf(combined_provider_subset_df_for_state[1]) :
                                      x["provider_id"] \in location_provider_ids}}
                  /\ failures = 0 => (in = Downloaded /\ loc_ids' = AnchorFootprint)
                  /\ RowsOf(out) = {r \in RowsOf(in) : r["location_id"] \in loc_ids'}
            /\ (pc = "exclude" /\ pc' = "speed") =>
                  /\ in.cols \in {{}, file_columns}
                  /\ location_provider_ids # {} =>
                        \A r \in RowsOf(in) : r["location_id"] \in loc_ids
                  /\ RowsOf(out) =
                        {r \in RowsOf(in) : r["provider_id"] \notin excluded_provider_ids}
                  /\ loc_ids' = loc_ids
            /\ (pc = "speed" /\ pc' = "group") =>
                  /\ in.cols \in {{}, file_columns}
                  /\ \A r \in RowsOf(in) :
                        /\ r["provider_id"] \notin excluded_provider_ids
                        /\ location_provider_ids # {} => r["location_id"] \in loc_ids
            /\ (/\ pc = "group" /\ pc' = "cbfilter"
                /\ location_provider_ids # {} /\ failures = 0) =>
                  /\ loc_ids = AnchorFootprint
                  /\ out = GroupNUnique(IF group_on_speed = "y"
                                        THEN GroupMaxSpeed(KeptRows, SpeedKeys)
                                        ELSE KeptRows,
                                        GroupingKeys)
      ]_vars

\* provider 111 is the anchor and is excluded: the location set is its Fiber
\* footprint, its rows are gone, and the rows of provider 222 at those
\* locations are collapsed by speed and counted
C12_Witness ==
    /\ pc = "cbfilter"
    /\ state = "Alabama"
    /\ location_provider_ids = {111}
    /\ excluded_provider_ids = {111}
    /\ group_on_speed = "y"
    /\ group_on_technology = "n"
    /\ tech_of_interest_list = ListedTechs
    /\ failures = 0
    /\ loc_ids = {1, 2, 3}
    /\ {r["provider_id"] : r \in RowsOf(combined_raw_df_for_state)} = {222}
    /\ {r["block_geoid"] : r \in RowsOf(combined_raw_df_for_state)}
          = {BlockA1, BlockA2, BlockA3}

====
